---- MODULE Spec2Model ----
(***************************************************************************)
(* Model of src/bot.py: a Telegram moderation bot (warning ledger in       *)
(* SQLite, moderation commands) with a support-ticket workflow.            *)
(*                                                                         *)
(* The specifications share the variables:                                 *)
(*   SpecStore   the warning-ledger functions of the store, called         *)
(*               directly (add / remove last / clear);                     *)
(*   SpecMod     the moderation command handlers (/warn, /unwarn, /ban),   *)
(*               on a table that may hold rows of earlier runs;            *)
(*   SpecModFresh  the same handlers on a newly created table;             *)
(*   SpecWarnTasks  /warn handlers running as concurrent tasks that        *)
(*               interleave at their awaits;                               *)
(*   SpecCommands  the six moderation commands (ban, mute, unmute, warn,   *)
(*               unwarn, warns) with the clock standing still;             *)
(*   SpecIntake  the requester's side of the ticket workflow;              *)
(*   SpecTriage  the moderators' side of the ticket workflow, on tickets   *)
(*               submitted through the requester's handlers;               *)
(*   SpecRelay   one moderator's side of the ticket workflow, the clock    *)
(*               standing still;                                           *)
(*   SpecCancel  the same, the moderator writing /cancel or a plain text;  *)
(*   SpecStale   the moderator's side, started on an empty table with a    *)
(*               triage message of an earlier run in the support chat;     *)
(*   SpecOwner   the owner's commands /add and /unadd on the table         *)
(*               owner_message.                                            *)
(***************************************************************************)
EXTENDS Integers, Sequences, FiniteSets, TLC

VARIABLES
  warns,      \* table user_warns, rows in rowid order
  now,        \* wall clock in whole seconds (CURRENT_TIMESTAMP resolution)
  banned,     \* (chat, user) pairs the transport has banned
  tickets,    \* table support_tickets, row i has id i
  fsm,        \* MemoryStorage: per chat/user FSM state and data
  triageKb,   \* ticket ids whose triage message shows its buttons
  previews,   \* preview messages showing their buttons, in the support chat
  resolving,  \* resolve_ticket handlers suspended at their send to the requester
  owner_message,  \* table owner_message, rows in rowid order
  warnTasks,  \* warn_command handlers suspended at an await
  event,      \* the update handled by the last step
  out         \* the Bot API calls the last handler made, in order

vars ==
  <<warns, now, banned, tickets, fsm, triageKb, previews, resolving, owner_message,
    warnTasks, event, out>>

None == "None"

-----------------------------------------------------------------------------
(* Bounds *)

MaxTime == 1          \* the clock stops ticking here
MaxWarns == 3         \* cap on rows of user_warns
MaxPersisted == 3     \* rows user_warns may hold when the process starts

-----------------------------------------------------------------------------
(* Configuration and the chat's member directory *)

ALLOWED_CHAT_ID == "allowed_chat"
SUPPORT_CHAT_ID == "support_chat"
OtherChat == "other_chat"
Chats == {ALLOWED_CHAT_ID, OtherChat}

Admins == {"adm", "adm2"}
Bots == {"botx"}
Regulars == {"bob", "eve"}
Members == Admins \cup Bots \cup Regulars

\* Whitespace-delimited tokens of the text after a command.
At(u) == [k |-> "at", ref |-> u]       \* "@username"
Num(u) == [k |-> "num", ref |-> u]     \* all-digit identifier
Word(w) == [k |-> "word", ref |-> w]   \* any other word

\* A reason is a text (a sequence of tokens); NoReason is the sentinel
\* "Bez ukazaniya prichiny".
Reasons == {<<Word("spam")>>}
NoReason == <<Word("Bez ukazaniya prichiny")>>

-----------------------------------------------------------------------------
(* Store: table user_warns *)

WarnRow(chat_id, user_id, reason, ts) ==
  [chat_id |-> chat_id, user_id |-> user_id, reason |-> reason, timestamp |-> ts]

RemoveAt(s, i) == SubSeq(s, 1, i - 1) \o SubSeq(s, i + 1, Len(s))

\* The rowids (positions) of the rows of one (chat, user) pair.
PairIdx(W, chat_id, user_id) ==
  {i \in 1..Len(W) : W[i].chat_id = chat_id /\ W[i].user_id = user_id}

\* INSERT INTO user_warns (chat_id, user_id, reason): timestamp defaults to
\* CURRENT_TIMESTAMP, the new row gets the greatest rowid.
add_warn_to_db(W, chat_id, user_id, reason, t) ==
  Append(W, WarnRow(chat_id, user_id, reason, t))

\* SELECT reason ... WHERE chat_id = ? AND user_id = ? ORDER BY timestamp.
\* Rows are inserted with non-decreasing timestamps, so rowid order is a
\* timestamp order; the callers modelled here use the length of the result.
get_user_warns_from_db(W, chat_id, user_id) ==
  LET hit(r) == r.chat_id = chat_id /\ r.user_id = user_id
      rows == SelectSeq(W, hit)
  IN  [i \in 1..Len(rows) |-> rows[i].reason]

\* The rows "ORDER BY timestamp DESC LIMIT 1" may return: the rows of the pair
\* with the greatest timestamp.  SQL leaves the order among equal timestamps
\* unspecified (there is no second sort key), so each of them is an outcome.
LastWarnCandidates(W, chat_id, user_id) ==
  LET P == PairIdx(W, chat_id, user_id)
  IN  {i \in P : \A j \in P : W[j].timestamp <= W[i].timestamp}

\* DELETE FROM user_warns WHERE rowid = (SELECT rowid ... ORDER BY timestamp
\* DESC LIMIT 1): the set of tables the statement may leave.
remove_last_warn_from_db(W, chat_id, user_id) ==
  IF PairIdx(W, chat_id, user_id) = {}
  THEN {W}
  ELSE {RemoveAt(W, i) : i \in LastWarnCandidates(W, chat_id, user_id)}

\* A variant of clear_warns_from_db whose DELETE is limited to one row.
clear_warns_one_row(W, chat_id, user_id) ==
  IF PairIdx(W, chat_id, user_id) = {} THEN W
  ELSE RemoveAt(W, CHOOSE i \in PairIdx(W, chat_id, user_id) :
                     \A j \in PairIdx(W, chat_id, user_id) : i <= j)

\* DELETE FROM user_warns WHERE chat_id = ? AND user_id = ?
clear_warns_from_db(W, chat_id, user_id) ==
  LET keep(r) == ~(r.chat_id = chat_id /\ r.user_id = user_id)
  IN  SelectSeq(W, keep)

-----------------------------------------------------------------------------
(* SpecStore: the ledger functions called directly *)

NoEvent == [kind |-> "none"]

TicketVarsIdle ==
  /\ tickets = <<>>
  /\ fsm = <<>>
  /\ triageKb = {}
  /\ previews = {}
  /\ resolving = {}
  /\ owner_message = <<>>
  /\ warnTasks = {}

InitStore ==
  /\ warns = <<>>
  /\ now = 0
  /\ banned = {}
  /\ TicketVarsIdle
  /\ event = NoEvent
  /\ out = <<>>

Tick ==
  /\ now < MaxTime
  /\ now' = now + 1
  /\ event' = [kind |-> "tick"]
  /\ out' = <<>>
  /\ UNCHANGED <<warns, banned, tickets, fsm, triageKb, previews, resolving,
                 owner_message, warnTasks>>

StoreCall(name, chat_id, user_id) ==
  [kind |-> "store", fn |-> name, chat_id |-> chat_id, user_id |-> user_id]

StoreAddWarn(chat_id, user_id, reason) ==
  /\ Len(warns) < MaxWarns
  /\ warns' = add_warn_to_db(warns, chat_id, user_id, reason, now)
  /\ event' = StoreCall("add_warn_to_db", chat_id, user_id)
  /\ out' = <<>>
  /\ UNCHANGED <<now, banned, tickets, fsm, triageKb, previews, resolving,
                 owner_message, warnTasks>>

StoreRemoveLastWarn(chat_id, user_id) ==
  /\ warns' \in remove_last_warn_from_db(warns, chat_id, user_id)
  /\ event' = StoreCall("remove_last_warn_from_db", chat_id, user_id)
  /\ out' = <<>>
  /\ UNCHANGED <<now, banned, tickets, fsm, triageKb, previews, resolving,
                 owner_message, warnTasks>>

StoreClearWarns(chat_id, user_id) ==
  /\ warns' = clear_warns_from_db(warns, chat_id, user_id)
  /\ event' = StoreCall("clear_warns_from_db", chat_id, user_id)
  /\ out' = <<>>
  /\ UNCHANGED <<now, banned, tickets, fsm, triageKb, previews, resolving,
                 owner_message, warnTasks>>

NextStore ==
  \/ Tick
  \/ \E c \in Chats, u \in Regulars, r \in Reasons : StoreAddWarn(c, u, r)
  \/ \E c \in Chats, u \in Regulars : StoreRemoveLastWarn(c, u)
  \/ \E c \in Chats, u \in Regulars : StoreClearWarns(c, u)

SpecStore == InitStore /\ [][NextStore]_vars

-----------------------------------------------------------------------------
(* Moderation commands: the inbound message *)

GroupTypes == {"group", "supergroup"}
ChatTypes == {"supergroup", "private"}

ArgsSet ==
  { <<>>, <<Word("spam")>>,
    <<At("bob")>>, <<At("bob"), Word("spam")>>, <<Num("bob")>>,
    <<At("botx")>>, <<At("adm2")>> }

\* What chat.get_member answers for the identifier of the message.
LookupFailures == {"TelegramBadRequest", "Exception"}

\* How a command names its target: by reply (with any text after the
\* command), by a first token, or not at all; with the directory's answer.
TargetSpecs ==
  {[reply_to |-> r, args |-> a, lookup |-> "ok"] :
      r \in {"bob", "adm", "adm2", "botx"},
      a \in {<<>>, <<Word("spam")>>, <<At("eve")>>}}
  \cup {[reply_to |-> None, args |-> a, lookup |-> "ok"] : a \in ArgsSet}
  \cup {[reply_to |-> None, args |-> a, lookup |-> l] :
          a \in {<<At("bob")>>, <<Num("bob")>>}, l \in LookupFailures}

\* The chats a command may arrive from, with their type.
ChatContexts ==
  {<<ALLOWED_CHAT_ID, "supergroup">>, <<OtherChat, "supergroup">>,
   <<OtherChat, "private">>}

Senders == {"adm", "bob"}

\* ban_ok: whether the transport enacts bot.ban_chat_member.
CmdMessages(cmd) ==
  {[kind |-> "command", cmd |-> cmd,
    chat_id |-> c[1], chat_type |-> c[2], from_user |-> f,
    reply_to |-> ts.reply_to, args |-> ts.args, lookup |-> ts.lookup,
    ban_ok |-> b] :
      c \in ChatContexts, f \in Senders, ts \in TargetSpecs,
      b \in (IF cmd = "ban" THEN BOOLEAN ELSE {TRUE})}

\* Python values handed to get_target_user as its "command" parameter.
CommandObject(args) == [py |-> "CommandObject", args |-> args]
StrValue(args) == [py |-> "str", value |-> args]

\* A variant of is_allowed_chat that lets every chat pass.
is_allowed_chat_any(chat_id) == chat_id \in Chats

\* is_allowed_chat
is_allowed_chat(chat_id) == chat_id = ALLOWED_CHAT_ID

\* A variant of is_user_admin that takes every member for an administrator.
is_user_admin_always(user_id) == user_id \in Members

\* is_user_admin: the member's status is administrator or creator.
is_user_admin(user_id) == user_id \in Admins

\* The text of a token sequence; the empty text becomes the sentinel.
ReasonOf(toks) == IF toks = <<>> THEN NoReason ELSE toks

Found(u, reason) == [exc |-> None, user |-> u, reason |-> reason]
Raised(e) == [exc |-> e, user |-> None, reason |-> NoReason]

\* get_target_user(message, command).  Its first statement reads
\* command.args, which raises AttributeError unless command is a
\* CommandObject.
get_target_user(m, command) ==
  IF command.py # "CommandObject" THEN Raised("AttributeError")
  ELSE LET args == command.args IN
    IF m.reply_to # None THEN Found(m.reply_to, ReasonOf(args))
    ELSE IF args # <<>> THEN
      LET identifier == Head(args)
          reason == ReasonOf(Tail(args))
      IN  IF identifier.k \in {"at", "num"}
          THEN IF m.lookup = "ok" THEN Found(identifier.ref, reason)
               ELSE Found(None, reason)
          ELSE Found(None, NoReason)
    ELSE Found(None, NoReason)

\* The argument the handlers of ban, unmute, warn, unwarn and warns pass as
\* "command": the string command.args or "".
HandlerTargetArg(m) == StrValue(m.args)

-----------------------------------------------------------------------------
(* Bot API calls recorded in out *)

Delete == [api |-> "message.delete"]
Reply(what) == [api |-> "message.answer", what |-> what]
Notification(action, target, reason, admin) ==
  [api |-> "send_action_notification", action |-> action, target |-> target,
   reason |-> reason, admin |-> admin]
WarnAnswer(count) ==
  [api |-> "message.answer", what |-> "warn_issued", count |-> count,
   limit_reached |-> (count >= 3)]
UnwarnAnswer(count) ==
  [api |-> "message.answer", what |-> "warn_removed", count |-> count]
BanCall(chat_id, user_id, ok) ==
  [api |-> "bot.ban_chat_member", chat_id |-> chat_id, user_id |-> user_id,
   enacted |-> ok]

Outcome(W, B, o) == [warns |-> W, banned |-> B, out |-> o]

\* warn_command: the outcomes of handling message m on table W at time t.
warn_command(m, W, B, t) ==
  IF ~is_allowed_chat(m.chat_id) THEN {Outcome(W, B, <<>>)}
  ELSE IF m.chat_type \notin GroupTypes THEN {Outcome(W, B, <<>>)}
  ELSE IF ~is_user_admin(m.from_user) THEN {Outcome(W, B, <<Delete>>)}
  ELSE LET r == get_target_user(m, HandlerTargetArg(m)) IN
    IF r.exc # None THEN {Outcome(W, B, <<Delete, Reply("error")>>)}
    ELSE IF r.user = None THEN {Outcome(W, B, <<Delete, Reply("no_target")>>)}
    ELSE IF r.user = m.from_user THEN {Outcome(W, B, <<Delete>>)}
    ELSE IF r.user \in Bots THEN {Outcome(W, B, <<Delete, Reply("target_is_bot")>>)}
    ELSE IF is_user_admin(r.user) THEN {Outcome(W, B, <<Delete, Reply("target_is_admin")>>)}
    ELSE LET W2 == add_warn_to_db(W, m.chat_id, r.user, r.reason, t)
             warn_count == Len(get_user_warns_from_db(W2, m.chat_id, r.user))
         IN  {Outcome(W2, B, <<Delete,
                               Notification("warn", r.user, r.reason, m.from_user),
                               WarnAnswer(warn_count)>>)}

\* unwarn_command
unwarn_command(m, W, B, t) ==
  IF ~is_allowed_chat(m.chat_id) THEN {Outcome(W, B, <<>>)}
  ELSE IF m.chat_type \notin GroupTypes THEN {Outcome(W, B, <<>>)}
  ELSE IF ~is_user_admin(m.from_user) THEN {Outcome(W, B, <<Delete>>)}
  ELSE LET r == get_target_user(m, HandlerTargetArg(m)) IN
    IF r.exc # None THEN {Outcome(W, B, <<Delete, Reply("error")>>)}
    ELSE IF r.user = None THEN {Outcome(W, B, <<Delete, Reply("no_target")>>)}
    ELSE IF get_user_warns_from_db(W, m.chat_id, r.user) = <<>>
         THEN {Outcome(W, B, <<Delete, Reply("no_warns")>>)}
    ELSE { Outcome(W2, B, <<Delete,
                            Notification("unwarn", r.user, r.reason, m.from_user),
                            UnwarnAnswer(Len(get_user_warns_from_db(W2, m.chat_id, r.user)))>>)
           : W2 \in remove_last_warn_from_db(W, m.chat_id, r.user) }

\* ban_command (the bot holds the right to restrict members)
ban_command(m, W, B, t) ==
  IF ~is_allowed_chat(m.chat_id) THEN {Outcome(W, B, <<Reply("wrong_chat")>>)}
  ELSE IF m.chat_type \notin GroupTypes THEN {Outcome(W, B, <<>>)}
  ELSE IF ~is_user_admin(m.from_user) THEN {Outcome(W, B, <<Delete>>)}
  ELSE LET r == get_target_user(m, HandlerTargetArg(m)) IN
    IF r.exc # None THEN {Outcome(W, B, <<Delete>>)}
    ELSE IF r.user = None THEN {Outcome(W, B, <<Delete, Reply("no_target")>>)}
    ELSE IF r.user = m.from_user THEN {Outcome(W, B, <<Delete>>)}
    ELSE IF r.user \in Bots THEN {Outcome(W, B, <<Delete, Reply("target_is_bot")>>)}
    ELSE IF is_user_admin(r.user) THEN {Outcome(W, B, <<Delete, Reply("target_is_admin")>>)}
    ELSE IF ~m.ban_ok
         THEN {Outcome(W, B, <<Delete, BanCall(m.chat_id, r.user, FALSE),
                               Reply("error")>>)}
    ELSE {Outcome(clear_warns_from_db(W, m.chat_id, r.user),
                  B \cup {<<m.chat_id, r.user>>},
                  <<Delete, BanCall(m.chat_id, r.user, TRUE),
                    Notification("ban", r.user, r.reason, m.from_user)>>)}

-----------------------------------------------------------------------------
(* SpecMod: the moderation command handlers *)

\* Rows the table may hold when the process starts: init_db creates the
\* table only if it does not exist, so rows of earlier runs are kept.
PersistedRows == {WarnRow(ALLOWED_CHAT_ID, u, <<Word("spam")>>, 0) : u \in Regulars}

PersistedLedgers ==
  UNION {[1..n -> PersistedRows] : n \in 0..MaxPersisted}

InitMod ==
  /\ warns \in PersistedLedgers
  /\ now = 0
  /\ banned = {}
  /\ TicketVarsIdle
  /\ event = NoEvent
  /\ out = <<>>

Handle(m, outcomes) ==
  /\ \E o \in outcomes :
       /\ Len(o.warns) <= MaxWarns + MaxPersisted
       /\ warns' = o.warns
       /\ banned' = o.banned
       /\ out' = o.out
  /\ event' = m
  /\ UNCHANGED <<now, tickets, fsm, triageKb, previews, resolving, owner_message,
                 warnTasks>>

WarnCommand == \E m \in CmdMessages("warn") : Handle(m, warn_command(m, warns, banned, now))

UnwarnCommand == \E m \in CmdMessages("unwarn") : Handle(m, unwarn_command(m, warns, banned, now))

BanCommand == \E m \in CmdMessages("ban") : Handle(m, ban_command(m, warns, banned, now))

NextMod ==
  \/ Tick
  \/ WarnCommand
  \/ UnwarnCommand
  \/ BanCommand

SpecMod == InitMod /\ [][NextMod]_vars

\* The same handlers on a database file created by this run: no rows.
InitModFresh ==
  /\ warns = <<>>
  /\ now = 0
  /\ banned = {}
  /\ TicketVarsIdle
  /\ event = NoEvent
  /\ out = <<>>

SpecModFresh == InitModFresh /\ [][NextMod]_vars

-----------------------------------------------------------------------------
(* SpecWarnTasks: /warn handlers as concurrent tasks *)

MaxWarnTasks == 2     \* warn_command handlers suspended at the same time

\* The dispatcher starts a task per update; a handler runs until its next
\* await on the network and other handlers run meanwhile.  warn_command
\* awaits chat.get_member (is_user_admin of the sender), message.delete,
\* chat.get_member of the target, send_action_notification and
\* message.answer.  Nothing the handler shares with others is read or
\* written from get_target_user to the count read at line 1285, so these run
\* as one step; the next step starts after send_action_notification.
WarnTask(m, pc, target, reason, warn_count) ==
  [m |-> m, pc |-> pc, target |-> target, reason |-> reason, warn_count |-> warn_count]

TaskOutcome(W, task, o) == [warns |-> W, task |-> task, out |-> o]

\* warn_command up to its first await: the chat checks.
warn_command_begin(m) ==
  IF ~is_allowed_chat(m.chat_id) THEN {}
  ELSE IF m.chat_type \notin GroupTypes THEN {}
  ELSE {WarnTask(m, "is_user_admin", None, NoReason, 0)}

\* warn_command resumed: from the answer of is_user_admin to the count read
\* after the insert, or from the end of send_action_notification to the end
\* of the handler.  task is the set holding the next suspension, if any.
warn_command_resume(h, W, t) ==
  LET m == h.m IN
  IF h.pc = "send_action_notification"
  THEN TaskOutcome(W, {}, <<Notification("warn", h.target, h.reason, m.from_user),
                            WarnAnswer(h.warn_count)>>)
  ELSE IF ~is_user_admin(m.from_user) THEN TaskOutcome(W, {}, <<Delete>>)
  ELSE LET r == get_target_user(m, HandlerTargetArg(m)) IN
    IF r.exc # None THEN TaskOutcome(W, {}, <<Delete, Reply("error")>>)
    ELSE IF r.user = None THEN TaskOutcome(W, {}, <<Delete, Reply("no_target")>>)
    ELSE IF r.user = m.from_user THEN TaskOutcome(W, {}, <<Delete>>)
    ELSE IF r.user \in Bots THEN TaskOutcome(W, {}, <<Delete, Reply("target_is_bot")>>)
    ELSE IF is_user_admin(r.user)
         THEN TaskOutcome(W, {}, <<Delete, Reply("target_is_admin")>>)
    ELSE LET W2 == add_warn_to_db(W, m.chat_id, r.user, r.reason, t)
             warn_count == Len(get_user_warns_from_db(W2, m.chat_id, r.user))
         IN  TaskOutcome(W2, {WarnTask(m, "send_action_notification", r.user, r.reason,
                                       warn_count)},
                         <<Delete>>)

\* /warn messages of two administrators and of a plain member, replying to
\* a message of bob, in the moderated chat and in another group.
WarnTaskMessages ==
  {[kind |-> "command", cmd |-> "warn",
    chat_id |-> c, chat_type |-> "supergroup", from_user |-> f,
    reply_to |-> "bob", args |-> a, lookup |-> "ok", ban_ok |-> TRUE] :
      c \in Chats, f \in {"adm", "adm2", "bob"}, a \in {<<>>, <<Word("spam")>>}}

InitWarnTasks ==
  /\ warns \in PersistedLedgers
  /\ now = 0
  /\ banned = {}
  /\ TicketVarsIdle
  /\ event = NoEvent
  /\ out = <<>>

\* An update with a /warn message arrives and its handler runs to its
\* first await (or returns before it).
WarnBegin ==
  \E m \in WarnTaskMessages :
    /\ \A h \in warnTasks : h.m # m
    /\ Cardinality(warnTasks \cup warn_command_begin(m)) <= MaxWarnTasks
    /\ warnTasks' = warnTasks \cup warn_command_begin(m)
    /\ event' = m
    /\ out' = <<>>
    /\ UNCHANGED <<warns, now, banned, tickets, fsm, triageKb, previews, resolving,
                   owner_message>>

\* A suspended handler runs to its next await or to its end.
WarnResume ==
  \E h \in warnTasks :
    LET o == warn_command_resume(h, warns, now)
    IN  /\ Len(o.warns) <= MaxWarns + MaxPersisted
        /\ warns' = o.warns
        /\ warnTasks' = (warnTasks \ {h}) \cup o.task
        /\ event' = [h.m EXCEPT !.kind = "resume"]
        /\ out' = o.out
        /\ UNCHANGED <<now, banned, tickets, fsm, triageKb, previews, resolving,
                       owner_message>>

NextWarnTasks == WarnBegin \/ WarnResume

SpecWarnTasks == InitWarnTasks /\ [][NextWarnTasks]_vars

-----------------------------------------------------------------------------
(* Mute: the text of a token and the duration it stands for *)

DigitChars == {"0", "1", "2", "3", "4", "5", "6", "7", "8", "9"}

\* The numeric identifier of a member, as text.
IdChars(u) ==
  CASE u = "bob" -> <<"7">>
    [] u = "eve" -> <<"8">>
    [] OTHER -> <<"9">>

\* The characters of the words used after a command.
Chars(w) ==
  CASE w = "10" -> <<"1", "0">>
    [] w = "2h" -> <<"2", "h">>
    [] w = "3d" -> <<"3", "d">>
    [] w = "5m" -> <<"5", "m">>
    [] w = "0" -> <<"0">>
    [] w = "abc" -> <<"a", "b", "c">>
    [] w = "50000" -> <<"5", "0", "0", "0", "0">>
    [] w = "spam" -> <<"s", "p", "a", "m">>
    [] OTHER -> <<"x">>

TokChars(tok) ==
  CASE tok.k = "at" -> <<"@">> \o Chars(tok.ref)
    [] tok.k = "num" -> IdChars(tok.ref)
    [] OTHER -> Chars(tok.ref)

\* str.isdigit()
isdigit(cs) == cs # <<>> /\ \A i \in 1..Len(cs) : cs[i] \in DigitChars

DigitVal(c) ==
  CASE c = "0" -> 0 [] c = "1" -> 1 [] c = "2" -> 2 [] c = "3" -> 3
    [] c = "4" -> 4 [] c = "5" -> 5 [] c = "6" -> 6 [] c = "7" -> 7
    [] c = "8" -> 8 [] c = "9" -> 9

\* int(cs) for an all-digit text; on any other text of the inputs int()
\* raises ValueError.
RECURSIVE int(_)
int(cs) ==
  IF cs = <<>> THEN 0
  ELSE 10 * int(SubSeq(cs, 1, Len(cs) - 1)) + DigitVal(cs[Len(cs)])

endswith(cs, c) == cs # <<>> /\ cs[Len(cs)] = c
DropLast(cs) == SubSeq(cs, 1, Len(cs) - 1)

DefaultMuteTime == <<"3", "0", "m">>

\* The duration, in minutes from now, that mute_command derives from
\* mute_time (the try block computing until_date); an exception in the block
\* gives 30 minutes.
MuteMinutes(mute_time) ==
  IF endswith(mute_time, "m")
  THEN IF isdigit(DropLast(mute_time)) THEN int(DropLast(mute_time)) ELSE 30
  ELSE IF endswith(mute_time, "h")
  THEN IF isdigit(DropLast(mute_time)) THEN 60 * int(DropLast(mute_time)) ELSE 30
  ELSE IF endswith(mute_time, "d")
  THEN IF isdigit(DropLast(mute_time)) THEN 1440 * int(DropLast(mute_time)) ELSE 30
  ELSE IF isdigit(mute_time) THEN int(mute_time) ELSE 30

\* What mute_command reads from the message: target, mute_time and reason.
MuteParse(target, mute_time, reason) ==
  [user |-> target, mute_time |-> mute_time, reason |-> reason]

\* The target/duration/reason parsing of mute_command.
mute_parse(m) ==
  LET args == m.args IN
  IF m.reply_to # None
  THEN IF args = <<>> THEN MuteParse(m.reply_to, DefaultMuteTime, NoReason)
       ELSE IF isdigit(TokChars(Head(args)))
            THEN MuteParse(m.reply_to, Append(TokChars(Head(args)), "m"),
                           IF Len(args) > 1 THEN Tail(args) ELSE NoReason)
            ELSE MuteParse(m.reply_to, DefaultMuteTime, args)
  ELSE IF args = <<>> THEN MuteParse(None, DefaultMuteTime, NoReason)
  ELSE LET identifier == Head(args)
           target_user == IF identifier.k \in {"at", "num"} /\ m.lookup = "ok"
                          THEN identifier.ref ELSE None
       IN  IF target_user # None /\ Len(args) >= 2
           THEN IF isdigit(TokChars(args[2]))
                THEN MuteParse(target_user, Append(TokChars(args[2]), "m"),
                               IF Len(args) > 2 THEN SubSeq(args, 3, Len(args))
                               ELSE NoReason)
                ELSE MuteParse(target_user, DefaultMuteTime, <<args[2]>>)
           ELSE MuteParse(target_user, DefaultMuteTime, NoReason)

\* bot.restrict_chat_member: minutes is until_date minus the current time;
\* lifted marks the call of unmute_command, which restores the permissions.
\* enacted: whether the transport carried the call out.
Restrict(chat_id, user_id, minutes, ok) ==
  [api |-> "bot.restrict_chat_member", chat_id |-> chat_id, user_id |-> user_id,
   lifted |-> FALSE, minutes |-> minutes, enacted |-> ok]
Unrestrict(chat_id, user_id, ok) ==
  [api |-> "bot.restrict_chat_member", chat_id |-> chat_id, user_id |-> user_id,
   lifted |-> TRUE, minutes |-> 0, enacted |-> ok]

MuteNotification(target, minutes, reason, admin) ==
  [api |-> "send_action_notification", action |-> "mute", target |-> target,
   minutes |-> minutes, reason |-> reason, admin |-> admin]

\* A variant of mute_command without the checks of the target (actor, bot,
\* administrator).
mute_command_unchecked(m, W, B, t) ==
  IF ~is_allowed_chat(m.chat_id) THEN {Outcome(W, B, <<>>)}
  ELSE IF m.chat_type \notin GroupTypes THEN {Outcome(W, B, <<>>)}
  ELSE IF m.from_user \notin Admins THEN {Outcome(W, B, <<Delete>>)}
  ELSE LET r == mute_parse(m) IN
    IF r.user = None THEN {Outcome(W, B, <<Delete, Reply("no_target")>>)}
    ELSE LET minutes == MuteMinutes(r.mute_time)
             call == Restrict(m.chat_id, r.user, minutes, m.restrict_ok)
         IN  IF ~m.restrict_ok
             THEN {Outcome(W, B, <<Delete, call, Reply("error")>>)}
             ELSE {Outcome(W, B, <<Delete, call,
                                   MuteNotification(r.user, minutes, r.reason,
                                                    m.from_user)>>)}

\* mute_command (the bot holds the right to restrict members);
\* m.restrict_ok: whether the transport enacts the restriction.
mute_command(m, W, B, t) ==
  IF ~is_allowed_chat(m.chat_id) THEN {Outcome(W, B, <<>>)}
  ELSE IF m.chat_type \notin GroupTypes THEN {Outcome(W, B, <<>>)}
  ELSE IF ~is_user_admin(m.from_user) THEN {Outcome(W, B, <<Delete>>)}
  ELSE LET r == mute_parse(m) IN
    IF r.user = None THEN {Outcome(W, B, <<Delete, Reply("no_target")>>)}
    ELSE IF r.user = m.from_user THEN {Outcome(W, B, <<Delete>>)}
    ELSE IF r.user \in Bots THEN {Outcome(W, B, <<Delete, Reply("target_is_bot")>>)}
    ELSE IF is_user_admin(r.user) THEN {Outcome(W, B, <<Delete, Reply("target_is_admin")>>)}
    ELSE LET minutes == MuteMinutes(r.mute_time)
             call == Restrict(m.chat_id, r.user, minutes, m.restrict_ok)
         IN  IF ~m.restrict_ok
             THEN {Outcome(W, B, <<Delete, call, Reply("error")>>)}
             ELSE {Outcome(W, B, <<Delete, call,
                                   MuteNotification(r.user, minutes, r.reason,
                                                    m.from_user)>>)}

\* unmute_command (the bot holds the right to restrict members); its outer
\* except branch only logs.
unmute_command(m, W, B, t) ==
  IF ~is_allowed_chat(m.chat_id) THEN {Outcome(W, B, <<>>)}
  ELSE IF m.chat_type \notin GroupTypes THEN {Outcome(W, B, <<>>)}
  ELSE IF ~is_user_admin(m.from_user) THEN {Outcome(W, B, <<Delete>>)}
  ELSE LET r == get_target_user(m, HandlerTargetArg(m)) IN
    IF r.exc # None THEN {Outcome(W, B, <<Delete>>)}
    ELSE IF r.user = None THEN {Outcome(W, B, <<Delete, Reply("no_target")>>)}
    ELSE LET call == Unrestrict(m.chat_id, r.user, m.restrict_ok)
         IN  IF ~m.restrict_ok
             THEN {Outcome(W, B, <<Delete, call, Reply("error")>>)}
             ELSE {Outcome(W, B, <<Delete, call,
                                   Notification("unmute", r.user, r.reason,
                                                m.from_user)>>)}

WarnsAnswer(reasons) ==
  [api |-> "message.answer", what |-> "warns_list", count |-> Len(reasons),
   reasons |-> reasons, limit_reached |-> (Len(reasons) >= 3)]

\* warns_command: the command message is deleted only for a non-admin.
warns_command(m, W, B, t) ==
  IF ~is_allowed_chat(m.chat_id) THEN {Outcome(W, B, <<>>)}
  ELSE IF m.chat_type \notin GroupTypes THEN {Outcome(W, B, <<>>)}
  ELSE IF ~is_user_admin(m.from_user) THEN {Outcome(W, B, <<Delete>>)}
  ELSE LET r == get_target_user(m, HandlerTargetArg(m)) IN
    IF r.exc # None THEN {Outcome(W, B, <<Reply("error")>>)}
    ELSE IF r.user = None THEN {Outcome(W, B, <<Reply("no_target")>>)}
    ELSE LET reasons == get_user_warns_from_db(W, m.chat_id, r.user)
         IN  IF reasons = <<>> THEN {Outcome(W, B, <<Reply("no_warns_listed")>>)}
             ELSE {Outcome(W, B, <<WarnsAnswer(reasons)>>)}

-----------------------------------------------------------------------------
(* SpecCommands: the six moderation commands *)

\* How the commands that take no duration name their target.
CommandTargets ==
  {[reply_to |-> r, args |-> <<>>, lookup |-> "ok"] :
      r \in {"bob", "adm", "adm2", "botx"}}
  \cup {[reply_to |-> None, args |-> a, lookup |-> "ok"] :
          a \in {<<>>, <<Word("spam")>>, <<At("bob"), Word("spam")>>, <<Num("bob")>>,
                 <<At("adm2")>>, <<At("botx")>>}}
  \cup {[reply_to |-> None, args |-> <<At("bob")>>, lookup |-> "TelegramBadRequest"],
        [reply_to |-> None, args |-> <<Num("bob")>>, lookup |-> "Exception"]}

DurationWords == {"10", "2h", "3d", "5m", "0", "abc", "50000"}

\* How a mute names its target and its duration.
MuteTargets ==
  {[reply_to |-> "bob", args |-> a, lookup |-> "ok"] :
      a \in {<<>>, <<Word("spam")>>, <<Word("10"), Word("spam")>>}
            \cup {<<Word(w)>> : w \in DurationWords}}
  \cup {[reply_to |-> r, args |-> <<Word("10")>>, lookup |-> "ok"] :
          r \in {"adm", "adm2", "botx", "eve"}}
  \cup {[reply_to |-> None, args |-> a, lookup |-> "ok"] :
          a \in {<<>>, <<Word("spam")>>, <<At("bob")>>, <<At("bob"), Word("10")>>,
                 <<Num("bob"), Word("2h")>>, <<At("bob"), Word("10"), Word("spam")>>,
                 <<At("bob"), Word("spam"), Word("spam")>>,
                 <<At("adm2"), Word("10")>>, <<At("botx"), Word("10")>>}}
  \cup {[reply_to |-> None, args |-> <<At("bob"), Word("10")>>,
         lookup |-> "TelegramBadRequest"],
        [reply_to |-> None, args |-> <<Num("bob"), Word("10")>>, lookup |-> "Exception"]}

\* Where a command comes from: chat, chat type and sender.
CommandOrigins ==
  {<<ALLOWED_CHAT_ID, "supergroup", "adm">>, <<ALLOWED_CHAT_ID, "supergroup", "bob">>,
   <<OtherChat, "supergroup", "adm">>, <<OtherChat, "private", "adm">>}

\* ban_ok / restrict_ok: whether the transport enacts the call of a ban,
\* mute or unmute.
CommandMessages(cmd) ==
  {[kind |-> "command", cmd |-> cmd,
    chat_id |-> c[1], chat_type |-> c[2], from_user |-> c[3],
    reply_to |-> ts.reply_to, args |-> ts.args, lookup |-> ts.lookup,
    ban_ok |-> b, restrict_ok |-> b] :
      c \in CommandOrigins,
      ts \in (IF cmd = "mute" THEN MuteTargets ELSE CommandTargets),
      b \in (IF cmd \in {"ban", "mute", "unmute"} THEN BOOLEAN ELSE {TRUE})}

BanCommandC == \E m \in CommandMessages("ban") : Handle(m, ban_command(m, warns, banned, now))

MuteCommand == \E m \in CommandMessages("mute") : Handle(m, mute_command(m, warns, banned, now))

UnmuteCommand ==
  \E m \in CommandMessages("unmute") : Handle(m, unmute_command(m, warns, banned, now))

WarnCommandC == \E m \in CommandMessages("warn") : Handle(m, warn_command(m, warns, banned, now))

UnwarnCommandC ==
  \E m \in CommandMessages("unwarn") : Handle(m, unwarn_command(m, warns, banned, now))

WarnsCommand == \E m \in CommandMessages("warns") : Handle(m, warns_command(m, warns, banned, now))

NextCommands ==
  \/ BanCommandC
  \/ MuteCommand
  \/ UnmuteCommand
  \/ WarnCommandC
  \/ UnwarnCommandC
  \/ WarnsCommand

\* The clock stands still: the handlers use it only for until_date, which
\* Restrict records as minutes from now.
SpecCommands == InitMod /\ [][NextCommands]_vars

-----------------------------------------------------------------------------
(* Ticket workflow: data *)

MaxTickets == 2         \* cap on rows of support_tickets (SpecIntake)
MaxTriageTickets == 1   \* cap on rows of support_tickets (SpecTriage)
MaxPreviews == 1        \* cap on preview messages showing their buttons

Requesters == {"u1"}
Moderators == {"m1", "m2"}
FsmKeys == Requesters \cup Moderators

Photos == {"ph1"}

\* A text is a sequence of characters; NoText is the absent or empty text
\* (None and "" are both false in the handlers' tests).  A menu label or a
\* command is a text of one token.
NoText == <<>>
\* No ticket id (None or 0: process_response tests "not ticket_id").
NoTicket == 0
\* resolved_at of a ticket not resolved (NULL).
NoTime == -1

\* Menu labels and commands (the texts the message handlers filter on).
LabelMyId == <<"Moy ID">>
LabelSupport == <<"Podderzhka">>
LabelAppeal == <<"Obzhalovat nakazanie">>
LabelComplaint == <<"Zhaloba">>
LabelSuggestion == <<"Predlozhenie po uluchsheniyu">>
LabelBack == <<"Nazad">>
CmdStart == <<"/start">>
FreeText == <<"a">>

TypeLabels == {LabelAppeal, LabelComplaint, LabelSuggestion}
ReqTexts == {LabelMyId, LabelSupport, LabelBack, CmdStart, FreeText} \cup TypeLabels

\* ticket_type and FSM state each type handler sets.
TypeOfLabel(l) ==
  CASE l = LabelAppeal -> "Obzhalovanie"
    [] l = LabelComplaint -> "Zhaloba"
    [] l = LabelSuggestion -> "Predlozhenie"

StateOfLabel(l) ==
  CASE l = LabelAppeal -> "waiting_for_appeal"
    [] l = LabelComplaint -> "waiting_for_complaint"
    [] l = LabelSuggestion -> "waiting_for_suggestion"

DefaultType == "Obrashchenie"
BodyStates == {"waiting_for_appeal", "waiting_for_complaint", "waiting_for_suggestion"}

\* FSM state and data of one chat/user key; state.clear() resets both.
EmptyCtx ==
  [state |-> None, ticket_type |-> None, photo_file_id |-> None, ticket_id |-> NoTicket]

\* Messages a requester sends to the bot in the private chat.
ReqMessages(u) ==
  {[kind |-> "message", chat |-> "private", from |-> u,
    text |-> t, photo |-> None, caption |-> NoText] : t \in ReqTexts}
  \cup {[kind |-> "message", chat |-> "private", from |-> u,
         text |-> NoText, photo |-> ph, caption |-> c] :
           ph \in Photos, c \in {NoText, FreeText}}
  \cup {[kind |-> "message", chat |-> "private", from |-> u,
         text |-> NoText, photo |-> None, caption |-> NoText]}

\* The handler the dispatcher runs: the first registered one whose filters
\* match the message and the sender's FSM state.
Dispatch(m, st) ==
  IF m.text = CmdStart THEN "start_command"
  ELSE IF m.text = LabelMyId THEN "my_id_handler"
  ELSE IF m.text = LabelSupport THEN "support_handler"
  ELSE IF m.text \in TypeLabels THEN "type_handler"
  ELSE IF m.text = LabelBack THEN "back_handler"
  ELSE IF st \in BodyStates /\ m.photo # None THEN "handle_support_photo"
  ELSE IF st = "waiting_for_text_with_photo" THEN "handle_text_with_photo"
  ELSE IF st \in BodyStates /\ m.text # NoText THEN "handle_support_text"
  ELSE IF st = "waiting_for_response" THEN "process_response"
  ELSE "unhandled"

-----------------------------------------------------------------------------
(* Store: table support_tickets *)

\* add_support_ticket: INSERT; status defaults to 'pending', the id is the
\* next AUTOINCREMENT value.
add_support_ticket(T, user_id, ticket_type, message, photo_file_id, t) ==
  Append(T, [user_id |-> user_id, ticket_type |-> ticket_type,
             message |-> message, photo_file_id |-> photo_file_id,
             status |-> "pending", admin_id |-> None, admin_response |-> NoText,
             created_at |-> t, resolved_at |-> NoTime])

\* update_ticket_status: UPDATE ... WHERE id = ?; resolved_at is set only for
\* status 'resolved'.  No row matches an unknown id.
update_ticket_status(T, ticket_id, admin_id, status, response, t) ==
  IF ticket_id \notin DOMAIN T THEN T
  ELSE [T EXCEPT ![ticket_id] =
          [@ EXCEPT !.status = status, !.admin_id = admin_id,
                    !.admin_response = response,
                    !.resolved_at = IF status = "resolved" THEN t ELSE @]]

\* get_ticket_by_id: the rows with this id (none or one).
get_ticket_by_id(T, ticket_id) ==
  IF ticket_id \in DOMAIN T THEN {T[ticket_id]} ELSE {}

-----------------------------------------------------------------------------
(* Requester handlers *)

Answer(what) == [api |-> "message.answer", what |-> what]
Ack(ticket_id) == [api |-> "message.answer", what |-> "accepted", ticket_id |-> ticket_id]
Triage(ticket_id, ok) ==
  [api |-> "send_to_support_chat", ticket_id |-> ticket_id, delivered |-> ok]

TOutcome(T, ctx, kb, o) == [tickets |-> T, ctx |-> ctx, triageKb |-> kb, out |-> o]

\* A variant of process_support_request whose send to the support chat is
\* not guarded on its own: a failed send falls into the outer handler, which
\* answers with an error text and clears the state.
process_support_request_unguarded(m, ctx, ticket_type_arg, caption, T, kb, t, triage_ok) ==
  LET ticket_type ==
        IF ticket_type_arg # None THEN ticket_type_arg
        ELSE IF ctx.ticket_type # None THEN ctx.ticket_type ELSE DefaultType
      photo_file_id == ctx.photo_file_id
      message_text == IF caption # NoText THEN caption ELSE m.text
  IN  IF message_text = NoText
      THEN TOutcome(T, EmptyCtx, kb, <<Answer("empty_message")>>)
      ELSE LET T2 == add_support_ticket(T, m.from, ticket_type, message_text,
                                        photo_file_id, t)
               ticket_id == Len(T2)
           IN  IF triage_ok
               THEN TOutcome(T2, EmptyCtx, kb \cup {ticket_id},
                             <<Triage(ticket_id, TRUE), Ack(ticket_id)>>)
               ELSE TOutcome(T2, EmptyCtx, kb,
                             <<Triage(ticket_id, FALSE), Answer("error")>>)

\* process_support_request(message, state, ticket_type, caption); ctx is the
\* sender's FSM context, triage_ok whether the send to the support chat
\* succeeds.
process_support_request(m, ctx, ticket_type_arg, caption, T, kb, t, triage_ok) ==
  LET ticket_type ==
        IF ticket_type_arg # None THEN ticket_type_arg
        ELSE IF ctx.ticket_type # None THEN ctx.ticket_type ELSE DefaultType
      photo_file_id == ctx.photo_file_id
      message_text == IF caption # NoText THEN caption ELSE m.text
  IN  IF message_text = NoText
      THEN TOutcome(T, EmptyCtx, kb, <<Answer("empty_message")>>)
      ELSE LET T2 == add_support_ticket(T, m.from, ticket_type, message_text,
                                        photo_file_id, t)
               ticket_id == Len(T2)
           IN  TOutcome(T2, EmptyCtx,
                        IF triage_ok THEN kb \cup {ticket_id} ELSE kb,
                        <<Triage(ticket_id, triage_ok), Ack(ticket_id)>>)

\* A variant of handle_support_photo that does not keep the photo's file id
\* in the FSM data when the photo has no caption.
handle_support_photo_unstaged(m, ctx, T, kb, t, triage_ok) ==
  LET staged == [ctx EXCEPT !.photo_file_id = m.photo]
  IN  IF m.caption # NoText
      THEN process_support_request(m, staged, None, m.caption, T, kb, t, triage_ok)
      ELSE TOutcome(T, [ctx EXCEPT !.state = "waiting_for_text_with_photo"],
                    kb, <<Answer("photo_received")>>)

\* handle_support_photo
handle_support_photo(m, ctx, T, kb, t, triage_ok) ==
  LET staged == [ctx EXCEPT !.photo_file_id = m.photo]
  IN  IF m.caption # NoText
      THEN process_support_request(m, staged, None, m.caption, T, kb, t, triage_ok)
      ELSE TOutcome(T, [staged EXCEPT !.state = "waiting_for_text_with_photo"],
                    kb, <<Answer("photo_received")>>)

\* data.get('ticket_type', default) of the two text handlers
CtxTicketType(ctx) == IF ctx.ticket_type # None THEN ctx.ticket_type ELSE DefaultType

\* A variant of handle_text_with_photo that takes the caption as the body
\* when the message has no text.
handle_text_with_photo_caption(m, ctx, T, kb, t, triage_ok) ==
  process_support_request(m, ctx, CtxTicketType(ctx),
                          IF m.text # NoText THEN m.text ELSE m.caption,
                          T, kb, t, triage_ok)

\* handle_text_with_photo
handle_text_with_photo(m, ctx, T, kb, t, triage_ok) ==
  process_support_request(m, ctx, CtxTicketType(ctx), m.text, T, kb, t, triage_ok)

\* handle_support_text
handle_support_text(m, ctx, T, kb, t, triage_ok) ==
  process_support_request(m, ctx, CtxTicketType(ctx), m.text, T, kb, t, triage_ok)

\* appeal_handler, complaint_handler, suggestion_handler
type_handler(m, ctx) ==
  [ctx EXCEPT !.ticket_type = TypeOfLabel(m.text), !.state = StateOfLabel(m.text)]

InitTicket ==
  /\ warns = <<>>
  /\ now = 0
  /\ banned = {}
  /\ tickets = <<>>
  /\ fsm = [k \in FsmKeys |-> EmptyCtx]
  /\ triageKb = {}
  /\ previews = {}
  /\ resolving = {}
  /\ owner_message = <<>>
  /\ warnTasks = {}
  /\ event = NoEvent
  /\ out = <<>>

\* A handler that only answers (start_command, my_id_handler,
\* support_handler, back_handler): neither FSM state nor data is touched.
AnswerOnly(m, handler, what) ==
  /\ Dispatch(m, fsm[m.from].state) = handler
  /\ event' = m
  /\ out' = <<Answer(what)>>
  /\ UNCHANGED <<warns, now, banned, tickets, fsm, triageKb, previews, resolving,
                 owner_message, warnTasks>>

StartCommand(M) == \E m \in M : AnswerOnly(m, "start_command", "welcome")

MyIdHandler(M) == \E m \in M : AnswerOnly(m, "my_id_handler", "my_id")

SupportHandler(M) == \E m \in M : AnswerOnly(m, "support_handler", "support_menu")

BackHandler(M) == \E m \in M : AnswerOnly(m, "back_handler", "main_menu")

TypeHandler(M) ==
  \E m \in M :
    /\ Dispatch(m, fsm[m.from].state) = "type_handler"
    /\ fsm' = [fsm EXCEPT ![m.from] = type_handler(m, fsm[m.from])]
    /\ event' = m
    /\ out' = <<Answer("describe")>>
    /\ UNCHANGED <<warns, now, banned, tickets, triageKb, previews, resolving,
                   owner_message, warnTasks>>

\* A message no registered handler matches: the last message handler,
\* handle_group_messages, takes group chats only, so the update is dropped.
Unhandled(M) ==
  \E m \in M :
    /\ Dispatch(m, fsm[m.from].state) = "unhandled"
    /\ event' = m
    /\ out' = <<>>
    /\ UNCHANGED <<warns, now, banned, tickets, fsm, triageKb, previews, resolving,
                   owner_message, warnTasks>>

ApplyT(m, o, cap) ==
  /\ Len(o.tickets) <= cap
  /\ tickets' = o.tickets
  /\ fsm' = [fsm EXCEPT ![m.from] = o.ctx]
  /\ triageKb' = o.triageKb
  /\ out' = o.out
  /\ event' = m
  /\ UNCHANGED <<warns, now, banned, previews, resolving, owner_message, warnTasks>>

HandleSupportPhoto(M, cap) ==
  \E m \in M : \E ok \in BOOLEAN :
    /\ Dispatch(m, fsm[m.from].state) = "handle_support_photo"
    /\ ApplyT(m, handle_support_photo(m, fsm[m.from], tickets, triageKb, now, ok), cap)

HandleTextWithPhoto(M, cap) ==
  \E m \in M : \E ok \in BOOLEAN :
    /\ Dispatch(m, fsm[m.from].state) = "handle_text_with_photo"
    /\ ApplyT(m, handle_text_with_photo(m, fsm[m.from], tickets, triageKb, now, ok), cap)

HandleSupportText(M, cap) ==
  \E m \in M : \E ok \in BOOLEAN :
    /\ Dispatch(m, fsm[m.from].state) = "handle_support_text"
    /\ ApplyT(m, handle_support_text(m, fsm[m.from], tickets, triageKb, now, ok), cap)

-----------------------------------------------------------------------------
(* SpecIntake: the requester's handlers *)

AllReqMessages == UNION {ReqMessages(u) : u \in Requesters}

\* The requester's handlers use the clock only to stamp created_at and the
\* text shown to the moderators; the clock stands still here.
NextIntake ==
  \/ StartCommand(AllReqMessages)
  \/ MyIdHandler(AllReqMessages)
  \/ SupportHandler(AllReqMessages)
  \/ BackHandler(AllReqMessages)
  \/ TypeHandler(AllReqMessages)
  \/ HandleSupportPhoto(AllReqMessages, MaxTickets)
  \/ HandleTextWithPhoto(AllReqMessages, MaxTickets)
  \/ HandleSupportText(AllReqMessages, MaxTickets)
  \/ Unhandled(AllReqMessages)

SpecIntake == InitTicket /\ [][NextIntake]_vars

-----------------------------------------------------------------------------
(* Moderator response text: the preview message and its parsing *)

\* Characters of a text: NL is the line break; "P" stands for
\* the word "Podtverdite" and "M" for the phrase "Vash otvet:" (the words
\* send_response searches the preview for); "H" for the preview's first
\* line; "a" for any other character.
NL == "\n"
Whitespace == {NL, " "}

\* Texts a moderator may type as a response (no leading or trailing
\* whitespace: the transport trims it).
RespTexts ==
  { <<"a">>,                      \* one line
    <<"a", NL, NL, "a">>,         \* a blank line inside
    <<"a", NL, "P", "a">>,        \* a line starting with "Podtverdite"
    <<"M", "a">> }                \* a line containing "Vash otvet:"

\* process_response: the preview text built around message.text.
PreviewText(text) ==
  <<"H", NL, NL, "M", NL>> \o text \o <<NL, NL, "P", "a">>

\* str.split("\n")
RECURSIVE SplitLines(_)
SplitLines(s) ==
  IF \A i \in 1..Len(s) : s[i] # NL THEN <<s>>
  ELSE LET k == CHOOSE i \in 1..Len(s) :
                  s[i] = NL /\ \A j \in 1..(i - 1) : s[j] # NL
       IN  <<SubSeq(s, 1, k - 1)>> \o SplitLines(SubSeq(s, k + 1, Len(s)))

Contains(line, c) == \E i \in 1..Len(line) : line[i] = c
StartsWith(line, c) == Len(line) >= 1 /\ line[1] = c

\* str.strip()
RECURSIVE Strip(_)
Strip(s) ==
  IF s = <<>> THEN s
  ELSE IF s[1] \in Whitespace THEN Strip(Tail(s))
  ELSE IF s[Len(s)] \in Whitespace THEN Strip(SubSeq(s, 1, Len(s) - 1))
  ELSE s

\* The loop of send_response over the preview's lines.
RECURSIVE ResponseLoop(_, _, _)
ResponseLoop(lines, in_response, response_text) ==
  IF lines = <<>> THEN response_text
  ELSE LET line == Head(lines) IN
    IF Contains(line, "M") THEN ResponseLoop(Tail(lines), TRUE, response_text)
    ELSE IF in_response /\ line # <<>> /\ ~StartsWith(line, "P")
      THEN ResponseLoop(Tail(lines), in_response, response_text \o line \o <<NL>>)
    ELSE IF StartsWith(line, "P") THEN response_text
    ELSE ResponseLoop(Tail(lines), in_response, response_text)

\* send_response: the response text recovered from callback.message.text.
ParseResponse(preview_text) ==
  Strip(ResponseLoop(SplitLines(preview_text), FALSE, <<>>))

-----------------------------------------------------------------------------
(* Moderator handlers *)

Callback(data, ticket_id, from, entered, text) ==
  [kind |-> "callback", data |-> data, ticket_id |-> ticket_id, from |-> from,
   entered |-> entered, text |-> text]

\* A preview message: the ticket its buttons name, its text, and the
\* moderator's message it quotes.
Preview(ticket_id, entered) ==
  [ticket_id |-> ticket_id, entered |-> entered, text |-> PreviewText(entered)]

SendUser(user_id, what, ticket_id, text, ok) ==
  [api |-> "bot.send_message", chat_id |-> user_id, what |-> what,
   ticket_id |-> ticket_id, text |-> text, delivered |-> ok]
CbAnswer(what) == [api |-> "callback.answer", what |-> what]

\* "Rassmotreno moderatorom", the response resolve_ticket stores.
ReviewedText == <<"R">>

MOutcome(T, ctx, kb, pv, o) ==
  [tickets |-> T, ctx |-> ctx, triageKb |-> kb, previews |-> pv, out |-> o]

\* resolve_ticket up to its first suspension, the send to the requester:
\* the status update, the re-read of the row and the notification.
resolve_ticket(cb, T, t, user_ok) ==
  LET T2 == update_ticket_status(T, cb.ticket_id, cb.from, "resolved", ReviewedText, t)
      ticket == get_ticket_by_id(T2, cb.ticket_id)
      notify == IF ticket # {}
                THEN <<SendUser((CHOOSE r \in ticket : TRUE).user_id, "reviewed",
                                cb.ticket_id, ReviewedText, user_ok)>>
                ELSE <<>>
  IN  [tickets |-> T2, out |-> notify]

\* resolve_ticket after the send: the triage message loses its buttons and
\* the callback query is answered.
resolve_ticket_resume(cb, kb) ==
  [triageKb |-> kb \ {cb.ticket_id}, out |-> <<CbAnswer("marked_resolved")>>]

\* respond_ticket
respond_ticket(cb, ctx, T, kb, pv) ==
  MOutcome(T, [ctx EXCEPT !.ticket_id = cb.ticket_id, !.state = "waiting_for_response"],
           kb, pv, <<Answer("write_response"), CbAnswer("")>>)

\* process_response: m is the moderator's message in the support chat.
process_response(m, ctx, T, kb, pv) ==
  IF ctx.ticket_id = NoTicket
  THEN MOutcome(T, EmptyCtx, kb, pv, <<Answer("no_ticket_id")>>)
  ELSE MOutcome(T, ctx, kb, pv \cup {Preview(ctx.ticket_id, m.text)},
                <<Answer("preview")>>)

\* A variant of send_response that stores the response only after the
\* requester has received it.
send_response_after_delivery(cb, ctx, T, kb, pv, t, user_ok) ==
  LET response_text == ParseResponse(cb.text)
      found == get_ticket_by_id(T, cb.ticket_id)
  IN  IF found = {} THEN MOutcome(T, ctx, kb, pv, <<CbAnswer("not_found")>>)
      ELSE LET ticket == CHOOSE r \in found : TRUE
               T2 == update_ticket_status(T, cb.ticket_id, cb.from, "responded",
                                          response_text, t)
               relay == SendUser(ticket.user_id, "response", cb.ticket_id,
                                 response_text, user_ok)
           IN  IF ~user_ok
               THEN MOutcome(T, ctx, kb, pv, <<relay, CbAnswer("not_delivered")>>)
               ELSE MOutcome(T2, EmptyCtx,
                             IF ticket.photo_file_id = None
                             THEN kb \ {cb.ticket_id} ELSE kb,
                             pv \ {Preview(cb.ticket_id, cb.entered)},
                             <<relay, CbAnswer("sent")>>)

\* send_response: cb.text is the text of the preview message tapped.  The
\* edit of the triage message goes through edit_message_text, which a photo
\* message rejects, so a photo ticket's triage message keeps its buttons.
send_response(cb, ctx, T, kb, pv, t, user_ok) ==
  LET response_text == ParseResponse(cb.text)
      found == get_ticket_by_id(T, cb.ticket_id)
  IN  IF found = {} THEN MOutcome(T, ctx, kb, pv, <<CbAnswer("not_found")>>)
      ELSE LET ticket == CHOOSE r \in found : TRUE
               T2 == update_ticket_status(T, cb.ticket_id, cb.from, "responded",
                                          response_text, t)
               relay == SendUser(ticket.user_id, "response", cb.ticket_id,
                                 response_text, user_ok)
           IN  IF ~user_ok
               THEN MOutcome(T2, ctx, kb, pv, <<relay, CbAnswer("not_delivered")>>)
               ELSE MOutcome(T2, EmptyCtx,
                             IF ticket.photo_file_id = None
                             THEN kb \ {cb.ticket_id} ELSE kb,
                             pv \ {Preview(cb.ticket_id, cb.entered)},
                             <<relay, CbAnswer("sent")>>)

\* cancel_response
cancel_response(cb, ctx, T, kb, pv) ==
  MOutcome(T, EmptyCtx, kb, pv \ {Preview(cb.ticket_id, cb.entered)},
           <<CbAnswer("cancelled")>>)

ApplyM(key, ev, o) ==
  /\ tickets' = o.tickets
  /\ fsm' = [fsm EXCEPT ![key] = o.ctx]
  /\ triageKb' = o.triageKb
  /\ previews' = o.previews
  /\ out' = o.out
  /\ event' = ev
  /\ UNCHANGED <<warns, now, banned, resolving, owner_message, warnTasks>>

\* A moderator taps "resolve" on a triage message that shows its buttons;
\* the handler runs up to the send to the requester and is suspended there.
ResolveTicketBy(Mods) ==
  \E mod \in Mods, tid \in triageKb : \E ok \in BOOLEAN :
    LET cb == Callback("resolve", tid, mod, NoText, NoText)
        o == resolve_ticket(cb, tickets, now, ok)
    IN  /\ cb \notin resolving
        /\ tickets' = o.tickets
        /\ resolving' = resolving \cup {cb}
        /\ out' = o.out
        /\ event' = cb
        /\ UNCHANGED <<warns, now, banned, fsm, triageKb, previews, owner_message,
                       warnTasks>>

ResolveTicket == ResolveTicketBy(Moderators)

\* A suspended resolve_ticket handler runs to its end.
ResolveTicketResume ==
  \E cb \in resolving :
    LET o == resolve_ticket_resume(cb, triageKb)
    IN  /\ triageKb' = o.triageKb
        /\ resolving' = resolving \ {cb}
        /\ out' = o.out
        /\ event' = [cb EXCEPT !.kind = "resume"]
        /\ UNCHANGED <<warns, now, banned, tickets, fsm, previews, owner_message,
                       warnTasks>>

RespondTicketBy(Mods) ==
  \E mod \in Mods, tid \in triageKb :
    LET cb == Callback("respond", tid, mod, NoText, NoText)
    IN  ApplyM(mod, cb, respond_ticket(cb, fsm[mod], tickets, triageKb, previews))

RespondTicket == RespondTicketBy(Moderators)

ModMessage(mod, text) ==
  [kind |-> "message", chat |-> SUPPORT_CHAT_ID, from |-> mod,
   text |-> text, photo |-> None, caption |-> NoText]

ProcessResponseBy(Mods, Texts) ==
  \E mod \in Mods, text \in Texts :
    LET m == ModMessage(mod, text)
        o == process_response(m, fsm[mod], tickets, triageKb, previews)
    IN  /\ Dispatch(m, fsm[mod].state) = "process_response"
        /\ Cardinality(o.previews) <= MaxPreviews
        /\ ApplyM(mod, m, o)

ProcessResponse == ProcessResponseBy(Moderators, RespTexts)

SendResponseBy(Mods) ==
  \E mod \in Mods, p \in previews : \E ok \in BOOLEAN :
    LET cb == Callback("send", p.ticket_id, mod, p.entered, p.text)
    IN  ApplyM(mod, cb,
               send_response(cb, fsm[mod], tickets, triageKb, previews, now, ok))

SendResponse == SendResponseBy(Moderators)

CancelResponseBy(Mods) ==
  \E mod \in Mods, p \in previews :
    LET cb == Callback("cancel", p.ticket_id, mod, p.entered, p.text)
    IN  ApplyM(mod, cb, cancel_response(cb, fsm[mod], tickets, triageKb, previews))

CancelResponse == CancelResponseBy(Moderators)

-----------------------------------------------------------------------------
(* SpecTriage: the moderators' handlers, on tickets the requester submits *)

\* The requester's messages of a complaint with a text body, or with a photo
\* and its caption.
TriageReqMessages ==
  {m \in AllReqMessages :
     \/ m.text \in {LabelComplaint, FreeText}
     \/ m.photo # None /\ m.caption # NoText}

NextTriage ==
  \/ Tick
  \/ TypeHandler(TriageReqMessages)
  \/ HandleSupportPhoto(TriageReqMessages, MaxTriageTickets)
  \/ HandleSupportText(TriageReqMessages, MaxTriageTickets)
  \/ ResolveTicket
  \/ ResolveTicketResume
  \/ RespondTicket
  \/ ProcessResponse
  \/ SendResponse
  \/ CancelResponse

SpecTriage == InitTicket /\ [][NextTriage]_vars

-----------------------------------------------------------------------------
(* SpecRelay: one moderator's handlers, on tickets submitted as text *)

RelayModerators == {"m1"}
RelayReqMessages == {m \in AllReqMessages : m.text \in {LabelComplaint, FreeText}}

\* A handler's outcome does not depend on the clock, which only stamps
\* resolved_at; it stands still here.
NextRelay ==
  \/ TypeHandler(RelayReqMessages)
  \/ HandleSupportText(RelayReqMessages, MaxTriageTickets)
  \/ ResolveTicketBy(RelayModerators)
  \/ ResolveTicketResume
  \/ RespondTicketBy(RelayModerators)
  \/ ProcessResponseBy(RelayModerators, RespTexts)
  \/ SendResponseBy(RelayModerators)
  \/ CancelResponseBy(RelayModerators)

SpecRelay == InitTicket /\ [][NextRelay]_vars

-----------------------------------------------------------------------------
(* SpecCancel: the moderator writes /cancel while a response is awaited *)

\* The text the prompt of respond_ticket names for cancelling.  No handler
\* is registered for the command, so the message reaches the handlers as
\* any other text does.
CmdCancel == <<"/cancel">>

CancelTexts == {CmdCancel, FreeText}

NextCancel ==
  \/ TypeHandler(RelayReqMessages)
  \/ HandleSupportText(RelayReqMessages, MaxTriageTickets)
  \/ ResolveTicketBy(RelayModerators)
  \/ ResolveTicketResume
  \/ RespondTicketBy(RelayModerators)
  \/ ProcessResponseBy(RelayModerators, CancelTexts)
  \/ SendResponseBy(RelayModerators)
  \/ CancelResponseBy(RelayModerators)

SpecCancel == InitTicket /\ [][NextCancel]_vars

-----------------------------------------------------------------------------
(* SpecStale: the moderator's handlers after the database file was lost *)

\* The tickets live in the local SQLite file, the triage messages in the
\* support chat.  A process started on a new file finds an empty table (its
\* ids start at 1 again) while a triage message of the earlier run still
\* shows its buttons; the id they name is one this run does not reach.
StaleTicketId == MaxTriageTickets + 1

InitStale ==
  /\ warns = <<>>
  /\ now = 0
  /\ banned = {}
  /\ tickets = <<>>
  /\ fsm = [k \in FsmKeys |-> EmptyCtx]
  /\ triageKb = {StaleTicketId}
  /\ previews = {}
  /\ resolving = {}
  /\ owner_message = <<>>
  /\ warnTasks = {}
  /\ event = NoEvent
  /\ out = <<>>

SpecStale == InitStale /\ [][NextRelay]_vars

-----------------------------------------------------------------------------
(* Owner message: the table owner_message and the commands /add, /unadd *)

BOT_OWNER_ID == "owner"

\* A row of owner_message; its AUTOINCREMENT id is never read.
OwnerRow(message, owner_id) == [message |-> message, owner_id |-> owner_id]

\* A variant of set_owner_message without the DELETE.
set_owner_message_append(OM, owner_id, message) ==
  Append(OM, OwnerRow(message, owner_id))

\* set_owner_message: DELETE FROM owner_message, then INSERT, in one
\* transaction.
set_owner_message(OM, owner_id, message) ==
  Append(<<>>, OwnerRow(message, owner_id))

\* get_owner_message: SELECT ... LIMIT 1 with no ORDER BY, any one stored row
\* (none on an empty table).
get_owner_message(OM) == {OM[i] : i \in DOMAIN OM}

\* remove_owner_message: DELETE FROM owner_message.
remove_owner_message(OM) == <<>>

OwnerTexts == {<<"hello">>, <<"rules">>, <<"news">>}
OwnerSenders == {BOT_OWNER_ID, "adm", "bob"}
OwnerOrigins ==
  {<<ALLOWED_CHAT_ID, "supergroup">>, <<OtherChat, "supergroup">>, <<OtherChat, "private">>}

\* /add and /unadd messages; args is command.args, NoText when the command
\* stands alone.
OwnerMessages(cmd, Args) ==
  {[kind |-> "command", cmd |-> cmd, chat_id |-> c[1], chat_type |-> c[2],
    from_user |-> f, args |-> a] :
     c \in OwnerOrigins, f \in OwnerSenders, a \in Args}

OwnerReply(what, text) == [api |-> "message.reply", what |-> what, text |-> text]

OOutcome(OM, o) == [owner_message |-> OM, out |-> o]

\* A variant of add_command without the owner check.
add_command_anyone(m, OM) ==
  LET text == m.args
  IN  IF text = NoText THEN OOutcome(OM, <<OwnerReply("no_text", NoText)>>)
      ELSE OOutcome(set_owner_message(OM, m.from_user, text),
                    <<OwnerReply("owner_message_set", text)>>)

\* add_command: the owner check, the empty-text check, the store call and
\* the reply.  The chat the command arrives in is not looked at.
add_command(m, OM) ==
  LET text == m.args
  IN  IF m.from_user # BOT_OWNER_ID
      THEN OOutcome(OM, <<OwnerReply("owner_only", NoText)>>)
      ELSE IF text = NoText THEN OOutcome(OM, <<OwnerReply("no_text", NoText)>>)
      ELSE OOutcome(set_owner_message(OM, m.from_user, text),
                    <<OwnerReply("owner_message_set", text)>>)

\* unadd_command
unadd_command(m, OM) ==
  IF m.from_user # BOT_OWNER_ID
  THEN OOutcome(OM, <<OwnerReply("owner_only", NoText)>>)
  ELSE OOutcome(remove_owner_message(OM), <<OwnerReply("owner_message_removed", NoText)>>)

\* start_command: the welcome text, followed by the stored owner message
\* when there is one; the main menu is attached in a private chat only.
start_command(m, OM) ==
  LET shown == IF get_owner_message(OM) = {} THEN {NoText}
               ELSE {r.message : r \in get_owner_message(OM)}
  IN  {<<[api |-> "message.answer", what |-> "welcome", owner_text |-> t,
          menu |-> (m.chat_type = "private")]>> : t \in shown}

-----------------------------------------------------------------------------
(* SpecOwner: the owner's commands *)

\* The table as an earlier run of the program left it: empty, or the one
\* row the owner's last /add wrote.
PersistedOwnerMessages ==
  {<<>>} \cup {<<OwnerRow(t, BOT_OWNER_ID)>> : t \in OwnerTexts}

InitOwner ==
  /\ warns = <<>>
  /\ now = 0
  /\ banned = {}
  /\ tickets = <<>>
  /\ fsm = <<>>
  /\ triageKb = {}
  /\ previews = {}
  /\ resolving = {}
  /\ owner_message \in PersistedOwnerMessages
  /\ warnTasks = {}
  /\ event = NoEvent
  /\ out = <<>>

ApplyO(m, o) ==
  /\ owner_message' = o.owner_message
  /\ out' = o.out
  /\ event' = m
  /\ UNCHANGED <<warns, now, banned, tickets, fsm, triageKb, previews, resolving,
                 warnTasks>>

AddCommand ==
  \E m \in OwnerMessages("add", OwnerTexts \cup {NoText}) :
    ApplyO(m, add_command(m, owner_message))

UnaddCommand ==
  \E m \in OwnerMessages("unadd", {NoText}) :
    ApplyO(m, unadd_command(m, owner_message))

StartCommandO ==
  \E m \in OwnerMessages("start", {NoText}) :
    \E o \in start_command(m, owner_message) :
      ApplyO(m, OOutcome(owner_message, o))

NextOwner == AddCommand \/ UnaddCommand \/ StartCommandO

SpecOwner == InitOwner /\ [][NextOwner]_vars

-----------------------------------------------------------------------------
(* Properties: warning ledger *)

PairCount(W, chat_id, user_id) == Cardinality(PairIdx(W, chat_id, user_id))

\* The member a command designates: the author of the message replied to,
\* else the member its first token names when the directory knows them.
DesignatedSubject(m) ==
  IF m.reply_to # None THEN m.reply_to
  ELSE IF m.args # <<>> /\ Head(m.args).k \in {"at", "num"} /\ m.lookup = "ok"
       THEN Head(m.args).ref
       ELSE None

IsCommand(e, cmd) == e.kind = "command" /\ e.cmd = cmd

\* A command of an administrator, in the moderated group chat.
ByAdminInGroup(e) ==
  /\ e.chat_id = ALLOWED_CHAT_ID
  /\ e.chat_type \in GroupTypes
  /\ e.from_user \in Admins

\* A warn by an administrator against a resolvable subject that is neither
\* the actor, a bot nor an administrator.
AcceptedWarn(e) ==
  /\ IsCommand(e, "warn")
  /\ ByAdminInGroup(e)
  /\ DesignatedSubject(e) \in Regulars

\* An unwarn by an administrator against a resolvable subject.
AcceptedUnwarn(e) ==
  /\ IsCommand(e, "unwarn")
  /\ ByAdminInGroup(e)
  /\ DesignatedSubject(e) \in Regulars

Announces(o, count) ==
  \E i \in 1..Len(o) :
    /\ o[i].api = "message.answer"
    /\ o[i].what = "warn_issued"
    /\ o[i].count = count

Escalates(o) ==
  \E i \in 1..Len(o) :
    /\ o[i].api = "message.answer"
    /\ o[i].what = "warn_issued"
    /\ o[i].limit_reached

\* C1: on a database without earlier rows, every warn an administrator
\* issues against a resolvable, non-protected subject inserts exactly one
\* warning for the pair, and announces the count of warnings then stored for
\* the pair (so the k-th warn of a fresh pair announces k).
C1_WarnInsertsAndAnnounces ==
  [][AcceptedWarn(event') =>
       LET c == event'.chat_id
           u == DesignatedSubject(event')
       IN  /\ Len(warns') = Len(warns) + 1
           /\ PairCount(warns', c, u) = PairCount(warns, c, u) + 1
           /\ Announces(out', PairCount(warns', c, u))]_vars

\* C2: the escalation text (limit reached, ban recommended) is part of the
\* answer of exactly the warn that brings the pair's count to 3.
C2_EscalationExactlyAtThree ==
  [][AcceptedWarn(event') =>
       (Escalates(out') <=>
          PairCount(warns, event'.chat_id, DesignatedSubject(event')) + 1 = 3)]_vars

\* C9: an unwarn on a pair with at least one warning deletes exactly one
\* row, a row of the pair with the greatest timestamp, and keeps all others.
C9_UnwarnDeletesLatest ==
  [][(/\ AcceptedUnwarn(event')
      /\ PairCount(warns, event'.chat_id, DesignatedSubject(event')) >= 1) =>
       \E i \in LastWarnCandidates(warns, event'.chat_id, DesignatedSubject(event')) :
         warns' = RemoveAt(warns, i)]_vars

\* The row of the pair inserted last among those with the greatest timestamp.
LastInserted(W, chat_id, user_id) ==
  CHOOSE i \in LastWarnCandidates(W, chat_id, user_id) :
    \A j \in LastWarnCandidates(W, chat_id, user_id) : j <= i

\* C10: remove_last_warn_from_db on a pair with warnings deletes, among the
\* rows sharing the pair's greatest timestamp, the one inserted last.
C10_TieDeletesLastInserted ==
  [][(/\ event'.kind = "store"
      /\ event'.fn = "remove_last_warn_from_db"
      /\ PairIdx(warns, event'.chat_id, event'.user_id) # {}) =>
       warns' = RemoveAt(warns, LastInserted(warns, event'.chat_id, event'.user_id))]_vars

HasReply(o, what) ==
  \E i \in 1..Len(o) : o[i].api = "message.answer" /\ o[i].what = what

\* The audit notifications of one action in o.
Notifications(o, action) ==
  {i \in 1..Len(o) : o[i].api = "send_action_notification" /\ o[i].action = action}

\* C11: an unwarn on a pair without warnings answers that there are no
\* warnings, deletes nothing and sends no unwarn notification.
C11_UnwarnOnEmptyLedger ==
  [][(/\ AcceptedUnwarn(event')
      /\ PairCount(warns, event'.chat_id, DesignatedSubject(event')) = 0) =>
       /\ HasReply(out', "no_warns")
       /\ warns' = warns
       /\ Notifications(out', "unwarn") = {}
       /\ PairCount(warns', event'.chat_id, DesignatedSubject(event')) = 0]_vars

IsStoreCall(e, fn) == e.kind = "store" /\ e.fn = fn

\* C12: clear_warns_from_db leaves the pair without warnings and every other
\* pair's warnings as they were; clearing again changes nothing.
C12_ClearIdempotent ==
  [][IsStoreCall(event', "clear_warns_from_db") =>
       /\ get_user_warns_from_db(warns', event'.chat_id, event'.user_id) = <<>>
       /\ clear_warns_from_db(warns', event'.chat_id, event'.user_id) = warns'
       /\ (PairCount(warns, event'.chat_id, event'.user_id) = 0 => warns' = warns)
       /\ \A c \in Chats, u \in Regulars :
            (c # event'.chat_id \/ u # event'.user_id) =>
              get_user_warns_from_db(warns', c, u) = get_user_warns_from_db(warns, c, u)]_vars

\* A pair has just been cleared while another pair still has warnings.
C12_Witness ==
  /\ IsStoreCall(event, "clear_warns_from_db")
  /\ PairCount(warns, event.chat_id, event.user_id) = 0
  /\ Len(warns) >= 2

\* A ban by an administrator, which the transport enacts, against a
\* resolvable subject that is neither the actor, a bot nor an administrator.
AcceptedBan(e) ==
  /\ IsCommand(e, "ban")
  /\ ByAdminInGroup(e)
  /\ DesignatedSubject(e) \in Regulars
  /\ e.ban_ok

\* C13: such a ban is enacted, the pair's warnings are gone and the ban
\* notification is sent.
C13_BanClearsLedger ==
  [][AcceptedBan(event') =>
       /\ <<event'.chat_id, DesignatedSubject(event')>> \in banned'
       /\ PairCount(warns', event'.chat_id, DesignatedSubject(event')) = 0
       /\ Notifications(out', "ban") # {}]_vars

-----------------------------------------------------------------------------
(* Properties: moderation commands *)

\* The calls of bot.restrict_chat_member in o.
RestrictCalls(o) == {i \in 1..Len(o) : o[i].api = "bot.restrict_chat_member"}

AnyNotification(o) == \E i \in 1..Len(o) : o[i].api = "send_action_notification"

\* The designated target is the actor, a bot or an administrator.
ProtectedTarget(e) ==
  \/ DesignatedSubject(e) = e.from_user
  \/ DesignatedSubject(e) \in Bots
  \/ DesignatedSubject(e) \in Admins

ModerationCommands == {"ban", "mute", "unmute", "warn", "unwarn", "warns"}

\* C15: in the moderated group, a command of an actor who is not an
\* administrator restricts nobody, changes no warning, sends no
\* notification, and its message is removed.
C15_NonAdminActor ==
  [][(/\ event'.kind = "command"
      /\ event'.cmd \in ModerationCommands
      /\ event'.chat_id = ALLOWED_CHAT_ID
      /\ event'.chat_type \in GroupTypes
      /\ event'.from_user \notin Admins) =>
       /\ warns' = warns
       /\ banned' = banned
       /\ out' = <<Delete>>]_vars

\* A regular member has just sent a mute naming a resolvable target with a
\* duration, and only the removal of the message followed.
C15_Witness ==
  /\ IsCommand(event, "mute")
  /\ event.chat_id = ALLOWED_CHAT_ID
  /\ event.from_user \in Regulars
  /\ event.reply_to \in Regulars \ {event.from_user}
  /\ event.args = <<Word("10")>>
  /\ out = <<Delete>>

\* A mute by an administrator, which the transport enacts, against a
\* resolvable subject that is neither the actor, a bot nor an administrator.
AcceptedMute(e) ==
  /\ IsCommand(e, "mute")
  /\ ByAdminInGroup(e)
  /\ DesignatedSubject(e) \in Regulars
  /\ e.restrict_ok

\* The word in the duration position of a mute: the first word of a reply,
\* else the word after the identifier; "" when there is none.
DurationWord(e) ==
  IF e.reply_to # None
  THEN IF e.args # <<>> THEN Head(e.args).ref ELSE ""
  ELSE IF Len(e.args) >= 2 THEN e.args[2].ref ELSE ""

MutedFor(o, minutes) ==
  \E i \in RestrictCalls(o) : ~o[i].lifted /\ o[i].enacted /\ o[i].minutes = minutes

\* C16: a duration given as a bare integer or with suffix m, h or d mutes
\* for that many minutes, hours or days.
C16_DurationUnits ==
  [][AcceptedMute(event') =>
       /\ (DurationWord(event') = "10" => MutedFor(out', 10))
       /\ (DurationWord(event') = "5m" => MutedFor(out', 5))
       /\ (DurationWord(event') = "2h" => MutedFor(out', 120))
       /\ (DurationWord(event') = "3d" => MutedFor(out', 4320))]_vars

\* C17: an invalid or non-positive duration mutes for the default 30 minutes.
C17_InvalidDurationDefaults ==
  [][(AcceptedMute(event') /\ DurationWord(event') \in {"0", "abc"}) =>
       MutedFor(out', 30)]_vars

\* C18: no mute lasts longer than 43200 minutes.
C18_DurationClamped ==
  [][\A i \in RestrictCalls(out') :
       (out'[i].enacted /\ ~out'[i].lifted) => out'[i].minutes <= 43200]_vars

\* The reason a command's text gives: the whole text of a reply, else the
\* text after the identifier; the sentinel when that is empty.
DesignatedReason(e) ==
  IF e.reply_to # None THEN ReasonOf(e.args)
  ELSE IF e.args # <<>> THEN ReasonOf(Tail(e.args))
  ELSE NoReason

\* C19: target resolution follows reply, then mention, then numeric
\* identifier, else no target: a command without a resolvable target is
\* answered with target-not-found, and an unmute acts on the target found
\* and is announced with the reason found.
C19_ResolutionOrder ==
  [][(/\ event'.kind = "command"
      /\ event'.cmd \in {"ban", "unmute", "warn", "unwarn", "warns"}
      /\ ByAdminInGroup(event')) =>
       /\ (DesignatedSubject(event') = None => HasReply(out', "no_target"))
       /\ (event'.cmd = "unmute" /\ DesignatedSubject(event') # None /\ event'.restrict_ok) =>
            \E i \in Notifications(out', "unmute") :
              /\ out'[i].target = DesignatedSubject(event')
              /\ out'[i].reason = DesignatedReason(event')]_vars

\* C20: when the directory lookup of a mention or identifier fails, the
\* command ends as target-not-found, changes no warning and restricts nobody.
C20_LookupFailure ==
  [][(/\ event'.kind = "command"
      /\ event'.cmd \in ModerationCommands
      /\ ByAdminInGroup(event')
      /\ event'.reply_to = None
      /\ event'.args # <<>>
      /\ Head(event'.args).k \in {"at", "num"}
      /\ event'.lookup # "ok") =>
       /\ HasReply(out', "no_target")
       /\ warns' = warns
       /\ banned' = banned
       /\ RestrictCalls(out') = {}]_vars

\* The calls of bot.ban_chat_member in o.
BanCalls(o) == {i \in DOMAIN o : o[i].api = "bot.ban_chat_member"}

\* A ban by an administrator against a resolvable plain member which the
\* transport refuses to enact.
RefusedBan(e) ==
  /\ IsCommand(e, "ban")
  /\ ByAdminInGroup(e)
  /\ DesignatedSubject(e) \in Regulars
  /\ ~e.ban_ok

RefusedBanKeepsLedger ==
  [][RefusedBan(event') =>
       /\ warns' = warns
       /\ Notifications(out', "ban") = {}]_vars

\* C35: a ban, mute, unmute, warn, unwarn or warns command that arrives in a
\* chat other than the configured one bans and restricts nobody, lifts no
\* restriction and leaves the warning ledger as it was.
C35_OtherChatNoEffect ==
  [][(/\ event'.kind = "command"
      /\ event'.cmd \in ModerationCommands
      /\ event'.chat_id # ALLOWED_CHAT_ID) =>
       /\ warns' = warns
       /\ banned' = banned
       /\ RestrictCalls(out') = {}
       /\ BanCalls(out') = {}]_vars

\* An administrator of another group has sent there a mute that names a
\* plain member and that the transport would enact; nothing was done.
C35_Witness ==
  /\ IsCommand(event, "mute")
  /\ event.chat_id = OtherChat
  /\ event.chat_type \in GroupTypes
  /\ event.from_user \in Admins
  /\ DesignatedSubject(event) \in Regulars
  /\ event.restrict_ok
  /\ out = <<>>

-----------------------------------------------------------------------------
(* Properties: ticket workflow *)

IsCallback(e, data) == e.kind = "callback" /\ e.data = data

\* The sends to a requester of one kind ("reviewed" or "response") in o.
SendsToUser(o, what) ==
  {i \in 1..Len(o) : o[i].api = "bot.send_message" /\ o[i].what = what}

\* C3: a resolve invoked on a ticket that an earlier resolve has already
\* marked resolved leaves the ticket's resolved_at and resolving actor as
\* the first invocation set them.
C3_SecondResolveKeepsFirst ==
  [][(/\ IsCallback(event', "resolve")
      /\ tickets[event'.ticket_id].status = "resolved") =>
       /\ tickets'[event'.ticket_id].resolved_at = tickets[event'.ticket_id].resolved_at
       /\ tickets'[event'.ticket_id].admin_id = tickets[event'.ticket_id].admin_id]_vars

\* C4: a ticket's status changes only from pending, hence at most once.
C4_StatusChangesOnlyFromPending ==
  [][\A id \in DOMAIN tickets :
       tickets'[id].status # tickets[id].status => tickets[id].status = "pending"]_vars

\* C5: a resolve on a ticket that is no longer pending sends the requester
\* no "reviewed" notification, so each ticket is notified at most once.
C5_NoRenotification ==
  [][(/\ IsCallback(event', "resolve")
      /\ tickets[event'.ticket_id].status # "pending") =>
       SendsToUser(out', "reviewed") = {}]_vars

\* C6: a send of a moderator response on a ticket that is no longer pending
\* changes no field of any ticket and relays nothing to the requester.
C6_SendOnTerminalIsNoOp ==
  [][(/\ IsCallback(event', "send")
      /\ event'.ticket_id \in DOMAIN tickets
      /\ tickets[event'.ticket_id].status # "pending") =>
       /\ tickets' = tickets
       /\ SendsToUser(out', "response") = {}]_vars

\* C7: confirming the send of a response entered for a pending ticket
\* leaves the ticket responded with the entered text as stored response,
\* and the text relayed to the requester is the entered text.
C7_ResponseVerbatim ==
  [][(/\ IsCallback(event', "send")
      /\ event'.ticket_id \in DOMAIN tickets
      /\ tickets[event'.ticket_id].status = "pending") =>
       /\ tickets'[event'.ticket_id].status = "responded"
       /\ tickets'[event'.ticket_id].admin_response = event'.entered
       /\ SendsToUser(out', "response") # {}
       /\ \A i \in SendsToUser(out', "response") : out'[i].text = event'.entered]_vars

IsMessage(e) == e.kind = "message"

\* C8: after a type is selected, a photo without caption creates no ticket
\* and stages the photo next to the selected type; the text that follows
\* creates exactly one ticket with the selected type, the staged photo and
\* that text as body, for the sender.
C8_ScenarioB ==
  [][/\ (IsMessage(event') /\ event'.text \in TypeLabels) =>
          /\ tickets' = tickets
          /\ fsm'[event'.from].ticket_type = TypeOfLabel(event'.text)
          /\ fsm'[event'.from].state \in BodyStates
     /\ (/\ IsMessage(event')
         /\ fsm[event'.from].state \in BodyStates
         /\ event'.photo # None /\ event'.caption = NoText) =>
          /\ tickets' = tickets
          /\ fsm'[event'.from].state = "waiting_for_text_with_photo"
          /\ fsm'[event'.from].photo_file_id = event'.photo
          /\ fsm'[event'.from].ticket_type = fsm[event'.from].ticket_type
          /\ fsm[event'.from].ticket_type \in {TypeOfLabel(l) : l \in TypeLabels}
     /\ (/\ IsMessage(event')
         /\ fsm[event'.from].state = "waiting_for_text_with_photo"
         /\ event'.text = FreeText) =>
          /\ Len(tickets') = Len(tickets) + 1
          /\ SubSeq(tickets', 1, Len(tickets)) = tickets
          /\ tickets'[Len(tickets')].user_id = event'.from
          /\ tickets'[Len(tickets')].ticket_type = fsm[event'.from].ticket_type
          /\ tickets'[Len(tickets')].ticket_type \in {TypeOfLabel(l) : l \in TypeLabels}
          /\ tickets'[Len(tickets')].photo_file_id = fsm[event'.from].photo_file_id
          /\ tickets'[Len(tickets')].photo_file_id \in Photos
          /\ tickets'[Len(tickets')].message = event'.text
          /\ tickets'[Len(tickets')].status = "pending"]_vars

\* Scenario B has run to its end: the text after the photo has just created
\* the first ticket, a complaint with the staged photo and the text as body.
C8_Witness ==
  /\ IsMessage(event)
  /\ event.text = FreeText
  /\ event.photo = None
  /\ Len(tickets) = 1
  /\ tickets[1].ticket_type = TypeOfLabel(LabelComplaint)
  /\ tickets[1].photo_file_id \in Photos
  /\ tickets[1].message = FreeText
  /\ fsm[event.from] = EmptyCtx

\* The body a submission carries: the caption of a photo sent in a state
\* awaiting the body, or a free text sent there or after a staged photo.
IsSubmission(e, st) ==
  /\ IsMessage(e)
  /\ \/ st \in BodyStates /\ e.photo # None /\ e.caption # NoText
     \/ st \in BodyStates \cup {"waiting_for_text_with_photo"} /\ e.text = FreeText

BodyOf(e) == IF e.photo # None THEN e.caption ELSE e.text

Acks(o, ticket_id) == {i \in DOMAIN o : o[i] = Ack(ticket_id)}

TriageSends(o) == {i \in DOMAIN o : o[i].api = "send_to_support_chat"}

\* C21: a submission with a non-empty body stores one new pending ticket with
\* that body; whether or not the send to the support chat succeeds, the
\* ticket stays stored, the requester is acknowledged with the ticket's id
\* and the requester's session is idle with no staged data.
C21_SubmissionStored ==
  [][IsSubmission(event', fsm[event'.from].state) =>
       /\ Len(tickets') = Len(tickets) + 1
       /\ SubSeq(tickets', 1, Len(tickets)) = tickets
       /\ tickets'[Len(tickets')].status = "pending"
       /\ tickets'[Len(tickets')].user_id = event'.from
       /\ tickets'[Len(tickets')].message = BodyOf(event')
       /\ TriageSends(out') # {}
       /\ \A i \in TriageSends(out') : out'[i].ticket_id = Len(tickets')
       /\ Acks(out', Len(tickets')) # {}
       /\ fsm'[event'.from] = EmptyCtx]_vars

\* A submission whose send to the support chat failed: the ticket is stored
\* pending without a triage message, the requester holds the acknowledgement.
C21_Witness ==
  /\ IsMessage(event)
  /\ BodyOf(event) # NoText
  /\ Len(tickets) >= 1
  /\ tickets[Len(tickets)].status = "pending"
  /\ tickets[Len(tickets)].message = BodyOf(event)
  /\ out = <<Triage(Len(tickets), FALSE), Ack(Len(tickets))>>
  /\ Len(tickets) \notin triageKb
  /\ fsm[event.from] = EmptyCtx

\* C22: after a staged photo, a message whose text is absent or empty creates
\* no ticket, discards the requester's session and tells the requester to
\* try again.
C22_EmptyBodyRejected ==
  [][(/\ IsMessage(event')
      /\ fsm[event'.from].state = "waiting_for_text_with_photo"
      /\ event'.text = NoText) =>
       /\ tickets' = tickets
       /\ triageKb' = triageKb
       /\ fsm'[event'.from] = EmptyCtx
       /\ out' = <<Answer("empty_message")>>]_vars

\* A second photo, with a caption, has arrived after the staged one and was
\* turned down: nothing is stored and the session is gone.
C22_Witness ==
  /\ IsMessage(event)
  /\ event.text = NoText
  /\ event.photo # None
  /\ event.caption = FreeText
  /\ out = <<Answer("empty_message")>>
  /\ tickets = <<>>
  /\ fsm[event.from] = EmptyCtx

\* C23: a body from a requester whose session has no selected ticket type
\* still produces a ticket, filed under the generic type.
C23_UntypedBodyFiled ==
  [][(/\ IsMessage(event')
      /\ fsm[event'.from].ticket_type = None
      /\ BodyOf(event') = FreeText) =>
       /\ Len(tickets') = Len(tickets) + 1
       /\ tickets'[Len(tickets')].ticket_type = DefaultType
       /\ tickets'[Len(tickets')].message = BodyOf(event')]_vars

\* The sends to a requester in o that were not delivered.
FailedSends(o) ==
  {i \in DOMAIN o : o[i].api = "bot.send_message" /\ ~o[i].delivered}

AllSends(o) == {i \in DOMAIN o : o[i].api = "bot.send_message"}

IsResolveStep(e) == e.kind \in {"callback", "resume"} /\ e.data = "resolve"

CbAnswers(o) == {i \in DOMAIN o : o[i].api = "callback.answer"}

\* C27: a resolve whose ticket id matches no stored ticket changes no ticket,
\* sends nothing to a requester, and answers the moderator that the ticket
\* was not found rather than that it was marked.
C27_UnknownTicketNotFound ==
  [][(IsResolveStep(event') /\ event'.ticket_id \notin DOMAIN tickets) =>
       /\ tickets' = tickets
       /\ AllSends(out') = {}
       /\ \A i \in CbAnswers(out') : out'[i] = CbAnswer("not_found")]_vars

\* C29: in a state awaiting the body of a ticket of the selected type, every
\* message with a text, whatever the text (a menu label and /start
\* included), appends exactly one ticket with that text as body and ends the
\* requester's session.
C29_AnyTextIsBody ==
  [][(/\ IsMessage(event')
      /\ fsm[event'.from].state \in BodyStates
      /\ event'.text # NoText) =>
       /\ Len(tickets') = Len(tickets) + 1
       /\ SubSeq(tickets', 1, Len(tickets)) = tickets
       /\ tickets'[Len(tickets')].message = event'.text
       /\ tickets'[Len(tickets')].ticket_type = fsm[event'.from].ticket_type
       /\ fsm'[event'.from] = EmptyCtx]_vars

\* The requester's free text right after their "back" message.
BodyAfterBack(e1, e2) ==
  /\ IsMessage(e1)
  /\ e1.text = LabelBack
  /\ IsMessage(e2)
  /\ e2.from = e1.from
  /\ e2.text = FreeText

\* C30: the "back" message discards the requester's session (selected type,
\* staged photo, stage), and the text the requester sends next is not filed
\* as the body of the abandoned ticket.
C30_BackDiscardsSession ==
  [][/\ (IsMessage(event') /\ event'.text = LabelBack) =>
          fsm'[event'.from] = EmptyCtx
     /\ BodyAfterBack(event, event') => tickets' = tickets]_vars

\* The second part of C30 on its own.
C30_NoBodyAfterBack ==
  [][BodyAfterBack(event, event') => tickets' = tickets]_vars

\* A text message of a moderator in the support chat.
IsModeratorText(e) ==
  /\ IsMessage(e)
  /\ e.chat = SUPPORT_CHAT_ID
  /\ e.text # NoText

PreviewAnswers(o) == {i \in DOMAIN o : o[i] = Answer("preview")}

\* The second of two text messages in a row of one moderator.
SecondModeratorText(e1, e2) ==
  /\ IsModeratorText(e1)
  /\ IsModeratorText(e2)
  /\ e2.from = e1.from

\* C31: the text message a moderator sends after tapping "respond" is taken
\* as the response for that ticket and closes the interaction; the
\* moderator's next message is not taken as a further response.
C31_ResponseCapturedOnce ==
  [][/\ (/\ IsModeratorText(event')
         /\ fsm[event'.from].state = "waiting_for_response"
         /\ fsm[event'.from].ticket_id # NoTicket) =>
          /\ Preview(fsm[event'.from].ticket_id, event'.text) \in previews'
          /\ fsm'[event'.from].state # "waiting_for_response"
     /\ SecondModeratorText(event, event') =>
          /\ PreviewAnswers(out') = {}
          /\ previews' = previews]_vars

\* C32: a moderator who writes /cancel while a response is awaited from them
\* cancels the interaction, as the prompt of respond_ticket says: the state
\* is cleared and /cancel is not taken as the text of a response.
C32_CancelCommandCancels ==
  [][(/\ IsModeratorText(event')
      /\ event'.text = CmdCancel
      /\ fsm[event'.from].state = "waiting_for_response") =>
       /\ fsm'[event'.from] = EmptyCtx
       /\ previews' = previews
       /\ PreviewAnswers(out') = {}]_vars

-----------------------------------------------------------------------------
(* Properties: concurrent warns *)

\* A warn by an administrator of the moderated chat against a plain member.
WarnOfSubject(m) ==
  /\ m.cmd = "warn"
  /\ ByAdminInGroup(m)
  /\ DesignatedSubject(m) \in Regulars

\* The step in which the handler of such a warn ends while the handler of
\* another warn for the same pair is suspended.
ConcurrentWarnEnds(e, tasks) ==
  /\ e.kind = "resume"
  /\ WarnOfSubject(e)
  /\ \A h \in tasks : h.m # [e EXCEPT !.kind = "command"]
  /\ \E h \in tasks :
       /\ WarnOfSubject(h.m)
       /\ h.m.chat_id = e.chat_id
       /\ DesignatedSubject(h.m) = DesignatedSubject(e)

WarnAnnouncements(o) ==
  {i \in DOMAIN o : o[i].api = "message.answer" /\ o[i].what = "warn_issued"}

\* C28: of two warns for the same pair that run concurrently, the one that
\* ends first announces, after its awaits, the count it read right after its
\* own insert: at least 1 and, the other having inserted in between or not,
\* at most the number of warnings stored for the pair when the announcement
\* is sent.
C28_AnnouncedCountMayBeStale ==
  [][ConcurrentWarnEnds(event', warnTasks') =>
       /\ WarnAnnouncements(out') # {}
       /\ \A i \in WarnAnnouncements(out') :
            /\ out'[i].count >= 1
            /\ out'[i].count <=
                 PairCount(warns', event'.chat_id, DesignatedSubject(event'))]_vars

\* The step that made e the current event ended the handler of a warn by an
\* administrator against a plain member; tasks are the handlers suspended
\* after it.
AcceptedWarnEnded(e, tasks) ==
  /\ e.kind = "resume"
  /\ WarnOfSubject(e)
  /\ \A h \in tasks : h.m # [e EXCEPT !.kind = "command"]

\* C33: two warns for the same pair, their handlers interleaving in any way
\* and ending one after the other with no warning removed, each announce a
\* count, and the two counts differ.
C33_DistinctCountsAnnounced ==
  [][(/\ AcceptedWarnEnded(event, warnTasks)
      /\ AcceptedWarnEnded(event', warnTasks')
      /\ event'.chat_id = event.chat_id
      /\ DesignatedSubject(event') = DesignatedSubject(event)) =>
       /\ WarnAnnouncements(out) # {}
       /\ WarnAnnouncements(out') # {}
       /\ \A i \in WarnAnnouncements(out), j \in WarnAnnouncements(out') :
            out[i].count # out'[j].count]_vars

\* No handler of SpecWarnTasks is ever suspended after an insert, and no
\* count is ever announced.
WarnNeverAnnounced ==
  /\ \A h \in warnTasks : h.pc = "is_user_admin"
  /\ WarnAnnouncements(out) = {}

-----------------------------------------------------------------------------
(* Properties: owner message *)

ByOwner(e) == e.from_user = BOT_OWNER_ID

\* C24: at most one owner message is stored at any time; an accepted /add
\* replaces what was stored, so that the stored text is the text of the last
\* /add; an accepted /unadd leaves none.
C24_SingleOwnerMessage ==
  [][/\ Len(owner_message) <= 1
     /\ Len(owner_message') <= 1
     /\ (IsCommand(event', "add") /\ ByOwner(event') /\ event'.args # NoText) =>
          get_owner_message(owner_message') = {OwnerRow(event'.args, BOT_OWNER_ID)}
     /\ (IsCommand(event', "unadd") /\ ByOwner(event')) =>
          get_owner_message(owner_message') = {}]_vars

\* The owner has replaced a stored message by another text.
C24_Witness ==
  /\ IsCommand(event, "add")
  /\ ByOwner(event)
  /\ event.args = <<"rules">>
  /\ owner_message = <<OwnerRow(<<"rules">>, BOT_OWNER_ID)>>
  /\ out = <<OwnerReply("owner_message_set", <<"rules">>)>>

\* C25: the stored owner message changes only in a step of /add with a text
\* or of /unadd, sent by the configured owner; /add or /unadd from anyone
\* else, and /add without text, leave it as it was.
C25_OwnerOnly ==
  [][owner_message' # owner_message =>
       /\ ByOwner(event')
       /\ \/ IsCommand(event', "add") /\ event'.args # NoText
          \/ IsCommand(event', "unadd")]_vars

\* Someone else's /add with a text has been turned down while a message of
\* the owner is stored.
C25_Witness ==
  /\ IsCommand(event, "add")
  /\ ~ByOwner(event)
  /\ event.args = <<"rules">>
  /\ owner_message = <<OwnerRow(<<"hello">>, BOT_OWNER_ID)>>
  /\ out = <<OwnerReply("owner_only", NoText)>>

====
